---------------------------- MODULE Spec2Model ----------------------------
(***************************************************************************)
(* Electrochem-Automation: the job queue of gui_script.py (ElectrochemGUI) *)
(* with its worker threads, and the isolated measurement execution of      *)
(* run_measurement_serial.py (SerialMeasurementRunner).                    *)
(***************************************************************************)
EXTENDS Integers, Sequences, FiniteSets, TLC

(***************************************************************************)
(* Bounds of the model.                                                    *)
(***************************************************************************)
\* queue item objects (dicts) alive at a time: in the list, held by a thread
\* as its current item, or kept by a history variable
MaxItems == 2
\* threads alive at a time in execute_queue_serial
MaxThreads == 2

(***************************************************************************)
(* Inputs of the forms.                                                    *)
(***************************************************************************)
\* the five values offered by the pump_action combobox
KnownActionTexts == {"Extract", "Dispense", "Change Port", "Wait", "Empty to Waste"}
\* the combobox is editable: a text that is none of its values can be typed
ActionTexts == KnownActionTexts \cup {"Flush"}
\* the queue_port spinbox
Ports == {2}
\* the queue_param entry, a float, held in tenths (35 is 3.5)
Scale == 10
Params == {35}

VARIABLES
    measurement_queue,  \* self.measurement_queue: the list, as object ids
    items,              \* the queue item dicts, by object id
    is_running,         \* self.is_running
    pump,               \* self.pump is bound (not None)
    current_technique,  \* self.current_technique: the form the parameters frame shows
    params,             \* the texts of the entries of that form (self.cv_params or
                        \* self.swv_params), character by character
    current_script,     \* self.current_script: the lines of the last script generated
    threads,            \* the live threads run_queue started, each in execute_queue_serial
    saved,              \* the queue file save_queue wrote: whether it exists, and its records
    warning,            \* the warning the last GUI handler refused with, "" when it refused nothing
    clean,              \* history: no stop and no GUI change of the list since the last accepted run_queue
    snapshot,           \* history: the list at the last accepted run_queue, while clean
    pumpAtRun,          \* history: self.pump was bound at the last accepted run_queue, while clean
    results,            \* history: for each item of snapshot, how its dispatch ended ("none" before it)
    \* run_measurement_serial.py, one execution of main()
    at,                 \* the position in main() and SerialMeasurementRunner.run()
    connection,         \* self.connection: "None", "open" or "closed"
    sent,               \* what was written to the transport, in order
    timeout_counter,    \* timeout_counter of run_script
    data_points,        \* self.data_points
    loop_end,           \* how the receive loop ended, "" before
    result,             \* what run() is about to return or raise, "" before
    disconnects,        \* number of calls of disconnect()
    csv,                \* the rows of the result file, <<>> while none is written
    exit_code,          \* the exit status of the process, -1 while it runs
    silent_reads,       \* history: the reads of the receive loop so far while each returned
                        \* nothing, -1 once one returned a line or raised
    response,           \* response of connect(): "unread" before the probe is read, then
                        \* "empty" or "reply"
    value_text,         \* the text handed to parse_value, character by character
    value               \* what parse_value(value_text) ended with, once it was called

forms == <<current_technique, params, current_script>>
gui == <<measurement_queue, items, is_running, pump, threads, saved, warning,
         clean, snapshot, pumpAtRun, results, forms>>
decode == <<value_text, value>>
runner == <<at, connection, sent, timeout_counter, data_points, loop_end, result,
            disconnects, csv, exit_code, silent_reads, decode, response>>
vars == <<gui, runner>>

Terminal == {"completed", "failed", "skipped"}
Statuses == {"pending", "running"} \cup Terminal

(***************************************************************************)
(* String helpers of add_pump_to_queue, as tables over the form's texts.   *)
(***************************************************************************)
\* action.upper()
Upper(a) ==
    CASE a = "Extract" -> "EXTRACT"
      [] a = "Dispense" -> "DISPENSE"
      [] a = "Change Port" -> "CHANGE PORT"
      [] a = "Wait" -> "WAIT"
      [] a = "Empty to Waste" -> "EMPTY TO WASTE"
      [] a = "Flush" -> "FLUSH"

\* action.lower().replace(' ', '_')
LowerUnderscore(a) ==
    CASE a = "Extract" -> "extract"
      [] a = "Dispense" -> "dispense"
      [] a = "Change Port" -> "change_port"
      [] a = "Wait" -> "wait"
      [] a = "Empty to Waste" -> "empty_to_waste"
      [] a = "Flush" -> "flush"

\* f"PUMP_{action.upper()}"
PumpPrefix(u) ==
    CASE u = "EXTRACT" -> "PUMP_EXTRACT"
      [] u = "DISPENSE" -> "PUMP_DISPENSE"
      [] u = "CHANGE PORT" -> "PUMP_CHANGE PORT"
      [] u = "WAIT" -> "PUMP_WAIT"
      [] u = "EMPTY TO WASTE" -> "PUMP_EMPTY TO WASTE"
      [] u = "FLUSH" -> "PUMP_FLUSH"

\* current['type'].startswith('PUMP_')
StartsWithPUMP(t) ==
    t \in {"PUMP_EXTRACT", "PUMP_DISPENSE", "PUMP_CHANGE PORT", "PUMP_WAIT",
           "PUMP_EMPTY", "PUMP_EMPTY TO WASTE", "PUMP_FLUSH"}

\* int(param): truncation toward zero of a float held in tenths
IntOf(p) == IF p >= 0 THEN p \div Scale ELSE -((-p) \div Scale)

(***************************************************************************)
(* Texts and numbers: a str is held character by character, a float as a   *)
(* decimal.                                                                *)
(***************************************************************************)
\* a float, held exactly as m times ten to the power e, without trailing zeros in m
RECURSIVE Normalise(_)
Normalise(d) ==
    IF d.m = 0 THEN [m |-> 0, e |-> 0]
    ELSE IF d.m % 10 = 0 THEN Normalise([m |-> d.m \div 10, e |-> d.e + 1])
    ELSE d
Dec(m, e) == Normalise([m |-> m, e |-> e])
\* a * b
Times(a, b) == Dec(a.m * b.m, a.e + b.e)

\* what a call ends with: a returned float, or a raised ValueError
Returned(d) == [raised |-> FALSE, value |-> d]
ValueError == [raised |-> TRUE, value |-> Dec(0, 0)]

DigitChars == {"0", "1", "2", "3", "4", "5", "6", "7", "8", "9"}
DigitValue(c) ==
    CASE c = "0" -> 0 [] c = "1" -> 1 [] c = "2" -> 2 [] c = "3" -> 3 [] c = "4" -> 4
      [] c = "5" -> 5 [] c = "6" -> 6 [] c = "7" -> 7 [] c = "8" -> 8 [] c = "9" -> 9
RECURSIVE ToNat(_)
ToNat(cs) ==
    IF cs = <<>> THEN 0
    ELSE 10 * ToNat(SubSeq(cs, 1, Len(cs) - 1)) + DigitValue(cs[Len(cs)])
IsDigits(cs) == \A i \in 1..Len(cs) : cs[i] \in DigitChars
\* the index of the first character of cs that is in set, 0 when there is none
FirstIndex(cs, set) ==
    IF \E i \in 1..Len(cs) : cs[i] \in set
    THEN CHOOSE i \in 1..Len(cs) :
             cs[i] \in set /\ \A j \in 1..(i - 1) : cs[j] \notin set
    ELSE 0
Unsigned(cs) == IF cs # <<>> /\ cs[1] \in {"+", "-"} THEN Tail(cs) ELSE cs
SignOf(cs) == IF cs # <<>> /\ cs[1] = "-" THEN -1 ELSE 1

\* float(text) of Python for texts of signs, digits, a point and an exponent: the value,
\* or ValueError for anything that is not [sign] digits [. digits] [e [sign] digits]
float(cs) ==
    LET body == Unsigned(cs)
        k == FirstIndex(body, {"e", "E"})
        mant == IF k = 0 THEN body ELSE SubSeq(body, 1, k - 1)
        expo == IF k = 0 THEN <<>> ELSE SubSeq(body, k + 1, Len(body))
        dot == FirstIndex(mant, {"."})
        whole == IF dot = 0 THEN mant ELSE SubSeq(mant, 1, dot - 1)
        frac == IF dot = 0 THEN <<>> ELSE SubSeq(mant, dot + 1, Len(mant))
        valid == /\ IsDigits(whole) /\ IsDigits(frac)
                 /\ Len(whole) + Len(frac) > 0
                 /\ k # 0 => (Unsigned(expo) # <<>> /\ IsDigits(Unsigned(expo)))
    IN  IF valid
        THEN Returned(Dec(SignOf(cs) * ToNat(whole \o frac),
                          SignOf(expo) * ToNat(Unsigned(expo)) - Len(frac)))
        ELSE ValueError

\* int(text) of Python for texts of a sign and digits: the value, or ValueError
int(cs) ==
    IF Unsigned(cs) # <<>> /\ IsDigits(Unsigned(cs))
    THEN [raised |-> FALSE, value |-> SignOf(cs) * ToNat(Unsigned(cs))]
    ELSE [raised |-> TRUE, value |-> 0]
\* str(n) of an int, as an f-string formats it
RECURSIVE StrNat(_)
StrNat(n) ==
    LET digit == CHOOSE c \in DigitChars : DigitValue(c) = n % 10
    IN  IF n < 10 THEN <<digit>> ELSE StrNat(n \div 10) \o <<digit>>
Str(n) == IF n < 0 THEN <<"-">> \o StrNat(-n) ELSE StrNat(n)

(***************************************************************************)
(* Binary floating point: the float of the arithmetic of the SWV range, an *)
(* IEEE 754 double held as sign, significand bits (most significant first, *)
(* no leading zero, <<>> for zero) and the exponent x of the last bit: the *)
(* value is bits * 2^x.  Every operation rounds to nearest, ties to even.  *)
(***************************************************************************)
\* bits of the significand of a double
Precision == 53

RECURSIVE BitsOf(_)
BitsOf(n) == IF n = 0 THEN <<>> ELSE BitsOf(n \div 2) \o <<n % 2>>
\* the natural the n first bits denote
RECURSIVE NatOfFirst(_, _)
NatOfFirst(bits, n) == IF n = 0 THEN 0 ELSE 2 * NatOfFirst(bits, n - 1) + bits[n]
NatOf(bits) == NatOfFirst(bits, Len(bits))
\* bits without its leading zeros
Strip(bits) ==
    IF \E i \in 1..Len(bits) : bits[i] = 1
    THEN SubSeq(bits, FirstIndex(bits, {1}), Len(bits))
    ELSE <<>>
Zeros(n) == [i \in 1..n |-> 0]
\* the n last bits of the natural t
Padded(t, n) == [i \in 1..n |-> (t \div (2 ^ (n - i))) % 2]
\* the arithmetic on bits goes by pieces of this many bits
Piece == 15
\* bits + 1
Inc(bits) ==
    IF \A i \in 1..Len(bits) : bits[i] = 1
    THEN <<1>> \o Zeros(Len(bits))
    ELSE LET k == CHOOSE i \in 1..Len(bits) :
                      bits[i] = 0 /\ \A j \in (i + 1)..Len(bits) : bits[j] = 1
         IN  [i \in 1..Len(bits) |-> IF i < k THEN bits[i] ELSE IF i = k THEN 1 ELSE 0]

\* the double nearest to bits * 2^x (plus a nonzero remainder below the last bit when
\* sticky), ties to even
Round(neg, bits0, x, sticky0) ==
    LET bits == Strip(bits0)
        n == Len(bits)
    IN  IF n <= Precision
        THEN [neg |-> neg /\ bits # <<>>, bits |-> bits, x |-> IF bits = <<>> THEN 0 ELSE x]
        ELSE LET keep == SubSeq(bits, 1, Precision)
                 rest == SubSeq(bits, Precision + 1, n)
                 sticky == sticky0 \/ \E i \in 2..Len(rest) : rest[i] = 1
                 up == rest[1] = 1 /\ (sticky \/ keep[Precision] = 1)
             IN  [neg |-> neg, bits |-> IF up THEN Inc(keep) ELSE keep,
                  x |-> x + Len(rest)]

\* the bits of r / divisor after the binary point, a piece at a time, appended to acc
\* until it has two bits more than a significand or the remainder is 0
RECURSIVE Quotient(_, _, _, _)
Quotient(r, divisor, acc, places) ==
    IF r = 0 \/ Len(Strip(acc)) >= Precision + 2
    THEN [bits |-> acc, places |-> places, r |-> r]
    ELSE Quotient((r * (2 ^ (Piece))) % divisor, divisor,
                  acc \o Padded((r * (2 ^ (Piece))) \div divisor, Piece),
                  places + Piece)

\* float(text) as a double, from the decimal m * 10^e the text denotes
Double(d) ==
    LET mag == IF d.m < 0 THEN -d.m ELSE d.m
    IN  IF d.e >= 0
        THEN Round(d.m < 0, BitsOf(mag * (10 ^ (d.e))), 0, FALSE)
        ELSE LET divisor == (10 ^ (-d.e))
                 q == Quotient(mag % divisor, divisor, BitsOf(mag \div divisor), 0)
             IN  Round(d.m < 0, q.bits, -q.places, q.r # 0)

\* two significands brought to the same exponent and the same length
Aligned(a, b) ==
    LET x == IF a.x < b.x THEN a.x ELSE b.x
        abits == a.bits \o Zeros(a.x - x)
        bbits == b.bits \o Zeros(b.x - x)
        n == IF Len(abits) > Len(bbits) THEN Len(abits) ELSE Len(bbits)
    IN  [a |-> Zeros(n - Len(abits)) \o abits, b |-> Zeros(n - Len(bbits)) \o bbits,
         x |-> x]
\* the last piece of bits, and what is before it
LastPiece(bits) ==
    SubSeq(bits, Len(bits) - (IF Len(bits) < Piece THEN Len(bits) ELSE Piece) + 1,
           Len(bits))
BeforeLastPiece(bits) == SubSeq(bits, 1, Len(bits) - Len(LastPiece(bits)))
\* a + b + carry for bit sequences of the same length
RECURSIVE AddBits(_, _, _)
AddBits(a, b, carry) ==
    IF a = <<>> THEN BitsOf(carry)
    ELSE LET n == Len(LastPiece(a))
             t == NatOf(LastPiece(a)) + NatOf(LastPiece(b)) + carry
         IN  AddBits(BeforeLastPiece(a), BeforeLastPiece(b), t \div (2 ^ (n)))
                 \o Padded(t % (2 ^ (n)), n)
\* a - b - borrow for bit sequences of the same length, a not below b
RECURSIVE SubBits(_, _, _)
SubBits(a, b, borrow) ==
    IF a = <<>> THEN <<>>
    ELSE LET n == Len(LastPiece(a))
             t == NatOf(LastPiece(a)) - NatOf(LastPiece(b)) - borrow
         IN  SubBits(BeforeLastPiece(a), BeforeLastPiece(b), IF t < 0 THEN 1 ELSE 0)
                 \o Padded(IF t < 0 THEN t + (2 ^ (n)) ELSE t, n)
\* a < b for bit sequences of the same length
LessBits(a, b) ==
    \E i \in 1..Len(a) : a[i] < b[i] /\ \A j \in 1..(i - 1) : a[j] = b[j]

\* a + b
DoubleAdd(a, b) ==
    LET al == Aligned(a, b)
    IN  IF a.neg = b.neg
        THEN Round(a.neg, AddBits(al.a, al.b, 0), al.x, FALSE)
        ELSE IF LessBits(al.a, al.b)
        THEN Round(b.neg, SubBits(al.b, al.a, 0), al.x, FALSE)
        ELSE Round(a.neg, SubBits(al.a, al.b, 0), al.x, FALSE)
\* a - b
DoubleSub(a, b) == DoubleAdd(a, [b EXCEPT !.neg = ~b.neg /\ b.bits # <<>>])
\* a < b
DoubleLess(a, b) ==
    LET al == Aligned(a, b)
    IN  IF a.neg # b.neg THEN a.neg
        ELSE IF a.neg THEN LessBits(al.b, al.a)
        ELSE LessBits(al.a, al.b)
\* min(a, b) and max(a, b) of Python: the first argument unless the second is beyond it
DoubleMin(a, b) == IF DoubleLess(b, a) THEN b ELSE a
DoubleMax(a, b) == IF DoubleLess(a, b) THEN b ELSE a
\* a * k for a natural k
RECURSIVE TimesBits(_, _, _)
TimesBits(bits, k, carry) ==
    IF bits = <<>> THEN BitsOf(carry)
    ELSE LET n == Len(LastPiece(bits))
             t == NatOf(LastPiece(bits)) * k + carry
         IN  TimesBits(BeforeLastPiece(bits), k, t \div (2 ^ (n)))
                 \o Padded(t % (2 ^ (n)), n)
DoubleTimes(a, k) == Round(a.neg, TimesBits(a.bits, k, 0), a.x, FALSE)
\* int(a): the integer part, toward zero
DoubleInt(a) ==
    LET mag == IF a.x >= 0 THEN NatOf(a.bits) * (2 ^ (a.x))
               ELSE IF Len(a.bits) <= -a.x THEN 0
               ELSE NatOf(SubSeq(a.bits, 1, Len(a.bits) + a.x))
    IN  IF a.neg THEN -mag ELSE mag

(***************************************************************************)
(* The method forms and the MethodSCRIPT encoders.  A script is held line  *)
(* by line; a line is the text of its f-string with {} for each field it   *)
(* interpolates, and the texts interpolated.                               *)
(***************************************************************************)
Line(op, args) == [op |-> op, args |-> args]
Plain(op) == Line(op, <<>>)

\* lines 126-135: the entries of the CV form and their initial texts
CvDefaults ==
    [begin_potential |-> <<"0">>, vertex1 |-> <<"-", "0", ".", "5">>, vertex2 |-> <<"0", ".", "5">>,
     step_potential |-> <<"0", ".", "0", "1">>, scan_rate |-> <<"0", ".", "1">>,
     n_scans |-> <<"1">>, cond_potential |-> <<"0">>, cond_time |-> <<"0">>]
\* lines 161-169: the entries of the SWV form and their initial texts
SwvDefaults ==
    [begin_potential |-> <<"-", "0", ".", "5">>, end_potential |-> <<"0", ".", "5">>,
     step_potential |-> <<"0", ".", "0", "1">>, amplitude |-> <<"0", ".", "0", "2">>,
     frequency |-> <<"1", "5">>, cond_potential |-> <<"0">>, cond_time |-> <<"0">>]

\* a conditioning block that runs its hold loop twice
CvConditioning_HoldsTwice(p) ==
    <<Line("set_e {}", <<p.cond_potential>>),
      Plain("cell_on"),
      Line("#autorange for {}s prior to CV", <<p.cond_time>>),
      Line("meas_loop_ca p c {} 100m {}", <<p.cond_potential, p.cond_time>>),
      Plain("endloop"),
      Line("meas_loop_ca p c {} 100m {}", <<p.cond_potential, p.cond_time>>),
      Plain("endloop")>>
\* lines 384-388 and 390-391: the two ways the CV script turns the cell on
CvConditioning(p) ==
    <<Line("set_e {}", <<p.cond_potential>>),
      Plain("cell_on"),
      Line("#autorange for {}s prior to CV", <<p.cond_time>>),
      Line("meas_loop_ca p c {} 100m {}", <<p.cond_potential, p.cond_time>>),
      Plain("endloop")>>
CvCellOn == <<Plain("set_e 0m"), Plain("cell_on")>>

\* lines 394-397: the measurement loop line, with nscans when there is more than one scan
CvLoop(p) ==
    IF int(p.n_scans).value > 1
    THEN Line("meas_loop_cv p c {} {} {} {} {} nscans({})",
              <<p.begin_potential, p.vertex1, p.vertex2, p.step_potential, p.scan_rate,
                p.n_scans>>)
    ELSE Line("meas_loop_cv p c {} {} {} {} {}",
              <<p.begin_potential, p.vertex1, p.vertex2, p.step_potential, p.scan_rate>>)

\* lines 362-408, create_cv_methodscript: the script, or the ValueError of
\* float(cond_time) or int(n_scans)
create_cv_methodscript(p) ==
    IF float(p.cond_time).raised \/ int(p.n_scans).raised
    THEN [raised |-> TRUE, script |-> <<>>]
    ELSE [raised |-> FALSE,
          script |->
              <<Plain("e"), Plain("var c"), Plain("var p"), Plain("set_pgstat_mode 2"),
                Plain("set_max_bandwidth 40"), Plain("set_range ba 100u"),
                Plain("set_autoranging ba 1n 100u")>>
              \o (IF float(p.cond_time).value.m > 0 THEN CvConditioning(p) ELSE CvCellOn)
              \o <<Plain("# E_res, I_res, E_begin, E_vtx1, E_vtx2, E_step, scan_rate"),
                   CvLoop(p),
                   Plain("\tpck_start"), Plain("\tpck_add p"), Plain("\tpck_add c"),
                   Plain("\tpck_end"), Plain("endloop"), Plain("on_finished:"),
                   Plain("cell_off"), Plain("")>>]

\* lines 445-449: the analog range in millivolts, in the floats of the code
min_pot_mv(p) ==
    DoubleInt(DoubleTimes(DoubleSub(DoubleMin(Double(float(p.begin_potential).value),
                                              Double(float(p.end_potential).value)),
                                    Double(float(p.amplitude).value)),
                          1000))
max_pot_mv(p) ==
    DoubleInt(DoubleTimes(DoubleAdd(DoubleMax(Double(float(p.begin_potential).value),
                                              Double(float(p.end_potential).value)),
                                    Double(float(p.amplitude).value)),
                          1000))

\* lines 456-459: the conditioning loop of the SWV script
SwvConditioning(p) ==
    <<Line("#Equilibrate at {} and autorange for {}s prior to SWV",
           <<p.begin_potential, p.cond_time>>),
      Line("meas_loop_ca p c {} 100m {}", <<p.begin_potential, p.cond_time>>),
      Plain("endloop")>>

\* lines 422-473, create_swv_methodscript: the script, or the ValueError of float() of
\* begin, end, amplitude or cond_time
create_swv_methodscript(p) ==
    IF \/ float(p.begin_potential).raised \/ float(p.end_potential).raised
       \/ float(p.amplitude).raised \/ float(p.cond_time).raised
    THEN [raised |-> TRUE, script |-> <<>>]
    ELSE [raised |-> FALSE,
          script |->
              <<Plain("e"), Plain("var c"), Plain("var p"), Plain("var f"),
                Plain("var r"), Plain("var i"), Plain("store_var i 0i ja"),
                Plain("set_pgstat_chan 0"), Plain("set_pgstat_mode 2"),
                Plain("set_max_bandwidth 40"),
                Line("set_range_minmax da {}m {}m",
                     <<Str(min_pot_mv(p)), Str(max_pot_mv(p))>>),
                Plain("set_range ba 100u"), Plain("set_autoranging ba 1n 100u"),
                Plain("cell_on")>>
              \o (IF float(p.cond_time).value.m > 0 THEN SwvConditioning(p) ELSE <<>>)
              \o <<Plain("# Measure SWV: E, I, I_fwd, I_rev, E_begin, E_end, E_step, E_amp, freq"),
                   Line("meas_loop_swv p c f r {} {} {} {} {}",
                        <<p.begin_potential, p.end_potential, p.step_potential,
                          p.amplitude, p.frequency>>),
                   Plain("\tpck_start"), Plain("\tpck_add p"), Plain("\tpck_add c"),
                   Plain("\tpck_add f"), Plain("\tpck_add r"), Plain("\tpck_end"),
                   Plain("endloop"), Plain("on_finished:"), Plain("cell_off"),
                   Plain("")>>]

(***************************************************************************)
(* Queue items.                                                            *)
(***************************************************************************)
\* the dict add_to_queue builds
MeasurementItem(technique) == [type |-> technique, status |-> "pending"]

\* the dict add_pump_to_queue builds
PumpItem(action, port, param) ==
    IF action = "Wait"
    THEN [type |-> "PUMP_WAIT", status |-> "pending",
          action |-> LowerUnderscore(action), port |-> port, parameter |-> param]
    ELSE IF action = "Empty to Waste"
    THEN [type |-> "PUMP_EMPTY", status |-> "pending",
          action |-> LowerUnderscore(action), port |-> 9, parameter |-> param]
    ELSE [type |-> PumpPrefix(Upper(action)), status |-> "pending",
          action |-> LowerUnderscore(action), port |-> port, parameter |-> param]

\* an object id no dict lives at
Free == [type |-> "free", status |-> "free"]

Ids == 1..MaxItems
FreeIds == {id \in Ids : items[id] = Free}
\* the ids of n new dicts, lowest free ids first
RECURSIVE NewIds(_, _)
NewIds(free, n) ==
    IF n = 0 THEN <<>>
    ELSE LET id == CHOOSE i \in free : \A j \in free : i <= j
         IN  <<id>> \o NewIds(free \ {id}, n - 1)

Range(seq) == {seq[i] : i \in 1..Len(seq)}

NoTrace == [kind |-> "none"]
\* a thread at the top of execute_queue_serial
NewThread == [pc |-> "loop", current |-> 0, trace |-> NoTrace, stopped |-> FALSE]

Workers == 1..Len(threads)

NoFile == [exists |-> FALSE, content |-> <<>>]

\* the dicts something still refers to, in the state the step leads to; the others
\* are collected and their ids are free again
Referenced ==
    Range(measurement_queue') \cup {threads'[w].current : w \in 1..Len(threads')}
        \cup Range(snapshot')
Collect(its) == [id \in Ids |-> IF id \in Referenced THEN its[id] ELSE Free]

SetStatus(id, s) == [items EXCEPT ![id].status = s]

(***************************************************************************)
(* Init: the state after ElectrochemGUI.__init__.                          *)
(***************************************************************************)
Init ==
    /\ measurement_queue = <<>>
    /\ items = [id \in Ids |-> Free]
    /\ is_running = FALSE
    /\ pump = FALSE
    /\ current_technique = "CV"
    /\ params = CvDefaults
    /\ current_script = <<>>
    /\ threads = <<>>
    /\ saved = NoFile
    /\ warning = ""
    /\ clean = FALSE
    /\ snapshot = <<>>
    /\ pumpAtRun = FALSE
    /\ results = <<>>
    /\ at = "main"
    /\ connection = "None"
    /\ sent = <<>>
    /\ timeout_counter = 0
    /\ data_points = <<>>
    /\ loop_end = ""
    /\ result = ""
    /\ disconnects = 0
    /\ csv = <<>>
    /\ exit_code = -1
    /\ silent_reads = 0
    /\ response = "unread"
    /\ value_text = <<>>
    /\ value = [called |-> FALSE]

(***************************************************************************)
(* The GUI thread's handlers.                                              *)
(***************************************************************************)
\* a handler that changes the list, or stop_queue, ends the history of an undisturbed run
Interfered ==
    /\ clean' = FALSE /\ snapshot' = <<>> /\ pumpAtRun' = FALSE /\ results' = <<>>
Disturbed ==
    /\ Interfered
    /\ UNCHANGED <<runner, forms>>
Undisturbed == UNCHANGED <<clean, snapshot, pumpAtRun, results, runner, forms>>

\* the texts typed into the entries of the CV form and of the SWV form
CvChoices ==
    [begin_potential |-> {<<"0">>, <<"a", "b", "c">>}, vertex1 |-> {<<"-", "0", ".", "5">>}, vertex2 |-> {<<"0", ".", "5">>},
     step_potential |-> {<<"0", ".", "0", "1">>}, scan_rate |-> {<<"0", ".", "1">>},
     n_scans |-> {<<"1">>, <<"3">>, <<"0">>, <<"a", "b", "c">>},
     cond_potential |-> {<<"0">>, <<"0", ".", "2">>},
     cond_time |-> {<<"0">>, <<"5">>}]
SwvChoices ==
    [begin_potential |-> {<<"-", "0", ".", "5">>, <<"-", "2", ".", "0", "0">>,
                          <<"-", "0", ".", "5", "0", "0", "5">>},
     end_potential |-> {<<"0", ".", "5">>}, step_potential |-> {<<"0", ".", "0", "1">>},
     amplitude |-> {<<"0", ".", "0", "2">>, <<"0", ".", "0", "1">>},
     frequency |-> {<<"1", "5">>, <<"0">>},
     cond_potential |-> {<<"0">>},
     cond_time |-> {<<"0">>, <<"5">>, <<"a", "b", "c">>}]
Choices == IF current_technique = "CV" THEN CvChoices ELSE SwvChoices
\* the text is a number: float() accepts it, and int() for the number of scans
ValidEntry(key, cs) == IF key = "n_scans" THEN ~int(cs).raised ELSE ~float(cs).raised

\* what the handlers of the method tab leave alone
QueueUntouched ==
    UNCHANGED <<measurement_queue, items, is_running, pump, threads, saved,
                clean, snapshot, pumpAtRun, results, runner>>

\* lines 119-152, show_cv_params: the frame shows the CV form with its initial texts
show_cv_params ==
    /\ current_technique' = "CV"
    /\ params' = CvDefaults
    /\ QueueUntouched
    /\ UNCHANGED <<current_script, warning>>
\* lines 154-186, show_swv_params
show_swv_params ==
    /\ current_technique' = "SWV"
    /\ params' = SwvDefaults
    /\ QueueUntouched
    /\ UNCHANGED <<current_script, warning>>

\* the user types a text into an entry of the form; one entry at a time holds a text
\* that is not a number
EditEntry(key, cs) ==
    /\ key \in DOMAIN params
    /\ cs \in Choices[key]
    /\ cs # params[key]
    /\ ValidEntry(key, cs)
           \/ \A other \in DOMAIN params \ {key} : ValidEntry(other, params[other])
    /\ params' = [params EXCEPT ![key] = cs]
    /\ QueueUntouched
    /\ UNCHANGED <<current_technique, current_script, warning>>
Edit == \E key \in DOMAIN params : \E cs \in Choices[key] : EditEntry(key, cs)

\* lines 350-360, generate_cv_script, from the Generate Script button
generate_cv_script ==
    /\ current_technique = "CV"
    /\ LET made == create_cv_methodscript(params)
       IN  IF made.raised
           THEN /\ warning' = "Failed to generate script"
                /\ UNCHANGED current_script
           ELSE /\ warning' = ""
                /\ current_script' = made.script
    /\ QueueUntouched
    /\ UNCHANGED <<current_technique, params>>
\* lines 410-420, generate_swv_script
generate_swv_script ==
    /\ current_technique = "SWV"
    /\ LET made == create_swv_methodscript(params)
       IN  IF made.raised
           THEN /\ warning' = "Failed to generate script"
                /\ UNCHANGED current_script
           ELSE /\ warning' = ""
                /\ current_script' = made.script
    /\ QueueUntouched
    /\ UNCHANGED <<current_technique, params>>

\* add_to_queue(technique, script): append a pending measurement item
add_to_queue(technique) ==
    /\ FreeIds # {}
    /\ LET id == NewIds(FreeIds, 1)[1]
       IN  /\ measurement_queue' = Append(measurement_queue, id)
           /\ warning' = ""
           /\ Interfered
           /\ UNCHANGED <<is_running, pump, threads, saved, runner>>
           /\ items' = Collect([items EXCEPT ![id] = MeasurementItem(technique)])

\* lines 350-360, generate_cv_script, as add_cv_to_queue and the Generate Script button
\* call it: the script becomes current_script, or the error box is shown
\* lines 487-491, add_cv_to_queue: add_to_queue is called when a script was returned
add_cv_to_queue ==
    /\ current_technique = "CV"
    /\ LET made == create_cv_methodscript(params)
       IN  IF made.raised
           THEN /\ warning' = "Failed to generate script"
                /\ UNCHANGED <<measurement_queue, items, is_running, pump, threads, saved,
                               current_script>>
                /\ Undisturbed
           ELSE /\ current_script' = made.script
                /\ add_to_queue("CV")
    /\ UNCHANGED <<current_technique, params>>
\* lines 493-497, add_swv_to_queue
add_swv_to_queue ==
    /\ current_technique = "SWV"
    /\ LET made == create_swv_methodscript(params)
       IN  IF made.raised
           THEN /\ warning' = "Failed to generate script"
                /\ UNCHANGED <<measurement_queue, items, is_running, pump, threads, saved,
                               current_script>>
                /\ Undisturbed
           ELSE /\ current_script' = made.script
                /\ add_to_queue("SWV")
    /\ UNCHANGED <<current_technique, params>>

AddCvToQueue == add_cv_to_queue
AddSwvToQueue == add_swv_to_queue

\* add_pump_to_queue: append a pending pump item
add_pump_to_queue(action, port, param) ==
    /\ FreeIds # {}
    /\ LET id == NewIds(FreeIds, 1)[1]
       IN  /\ measurement_queue' = Append(measurement_queue, id)
           /\ warning' = ""
           /\ Disturbed
           /\ UNCHANGED <<is_running, pump, threads, saved>>
           /\ items' = Collect([items EXCEPT ![id] = PumpItem(action, port, param)])

AddPumpToQueue ==
    \E action \in ActionTexts, port \in Ports, param \in Params :
        add_pump_to_queue(action, port, param)

\* the form as it opens: the combobox on "Dispense"
AddDispenseToQueue ==
    \E port \in Ports, param \in Params : add_pump_to_queue("Dispense", port, param)

\* connect_pump: binds self.pump when the driver's constructors return, leaves it when they raise
connect_pump(raises) ==
    /\ pump' = IF raises THEN pump ELSE TRUE
    /\ warning' = IF raises THEN "Error" ELSE ""
    /\ Undisturbed
    /\ UNCHANGED <<measurement_queue, items, is_running, threads, saved>>

ConnectPump == \E raises \in BOOLEAN : connect_pump(raises)

\* run_queue: refuse an empty queue and a set flag, else set the flag and start a thread
run_queue ==
    IF measurement_queue = <<>>
    THEN /\ warning' = "Empty Queue"
         /\ Undisturbed
         /\ UNCHANGED <<measurement_queue, items, is_running, pump, threads, saved>>
    ELSE IF is_running
    THEN /\ warning' = "Already Running"
         /\ Undisturbed
         /\ UNCHANGED <<measurement_queue, items, is_running, pump, threads, saved>>
    ELSE /\ Len(threads) < MaxThreads
         /\ is_running' = TRUE
         /\ threads' = Append(threads, NewThread)
         /\ warning' = ""
         /\ clean' = (threads = <<>>)
         /\ snapshot' = IF threads = <<>> THEN measurement_queue ELSE <<>>
         /\ pumpAtRun' = (threads = <<>> /\ pump)
         /\ results' = IF threads = <<>>
                       THEN [i \in 1..Len(measurement_queue) |-> "none"]
                       ELSE <<>>
         /\ UNCHANGED <<measurement_queue, pump, saved, runner, forms>>
         /\ items' = Collect(items)

RunQueue == run_queue

\* stop_queue: clear the flag
stop_queue ==
    /\ is_running' = FALSE
    /\ warning' = ""
    /\ Disturbed
    /\ threads' = [w \in Workers |->
                      IF threads[w].pc = "dispatch"
                      THEN [threads[w] EXCEPT !.stopped = TRUE]
                      ELSE threads[w]]
    /\ UNCHANGED <<measurement_queue, pump, saved>>
    /\ items' = Collect(items)

StopQueue == stop_queue

\* a slip in lines 626-628: the guard on is_running left out
clear_queue_Unguarded ==
    /\ measurement_queue' = <<>>
    /\ warning' = ""
    /\ Disturbed
    /\ UNCHANGED <<is_running, pump, threads, saved>>
    /\ items' = Collect(items)

\* clear_queue: refuse while the flag is set, else replace the list by an empty one
clear_queue ==
    IF is_running
    THEN /\ warning' = "Queue Running"
         /\ Undisturbed
         /\ UNCHANGED <<measurement_queue, items, is_running, pump, threads, saved>>
    ELSE /\ measurement_queue' = <<>>
         /\ warning' = ""
         /\ Disturbed
         /\ UNCHANGED <<is_running, pump, threads, saved>>
         /\ items' = Collect(items)

ClearQueue == clear_queue

\* lines 527-538, refresh_queue_display: the rows the tree view holds after a refresh
\* that reads the list q of the dicts its: the type and item['status'].upper()
refresh_queue_display(q, its) ==
    [i \in 1..Len(q) |->
        [type |-> its[q[i]].type,
         status |-> CASE its[q[i]].status = "pending" -> "PENDING"
                      [] its[q[i]].status = "running" -> "RUNNING"
                      [] its[q[i]].status = "completed" -> "COMPLETED"
                      [] its[q[i]].status = "failed" -> "FAILED"
                      [] its[q[i]].status = "skipped" -> "SKIPPED"]]

\* json.dump(self.measurement_queue): the records of the list, in order
Dump == [i \in 1..Len(measurement_queue) |-> items[measurement_queue[i]]]

\* save_queue: write the list to the chosen file; nothing when the dialog is cancelled
save_queue(chosen) ==
    /\ saved' = IF chosen THEN [exists |-> TRUE, content |-> Dump] ELSE saved
    /\ warning' = ""
    /\ Undisturbed
    /\ UNCHANGED <<measurement_queue, items, is_running, pump, threads>>

SaveQueue == \E chosen \in BOOLEAN : save_queue(chosen)

\* load_queue: replace the list by the file's records, new objects; nothing when cancelled
load_queue(chosen) ==
    IF ~chosen
    THEN /\ warning' = ""
         /\ Undisturbed
         /\ UNCHANGED <<measurement_queue, items, is_running, pump, threads, saved>>
    ELSE /\ saved.exists
         /\ Len(saved.content) <= Cardinality(FreeIds)
         /\ LET ids == NewIds(FreeIds, Len(saved.content))
            IN  /\ measurement_queue' = ids
                /\ warning' = ""
                /\ Disturbed
                /\ UNCHANGED <<is_running, pump, threads, saved>>
                /\ items' = Collect([id \in Ids |->
                                      IF \E i \in 1..Len(ids) : ids[i] = id
                                      THEN saved.content[CHOOSE i \in 1..Len(ids) : ids[i] = id]
                                      ELSE items[id]])

LoadQueue == \E chosen \in BOOLEAN : load_queue(chosen)

(***************************************************************************)
(* execute_queue_serial, one thread w.  Its positions: "loop" before the   *)
(* while condition, "dispatch" with an item marked running and its         *)
(* dispatch in flight, "pop" with the dispatch over and the status set,    *)
(* "exit" after the loop.  A thread that ended leaves the list of threads. *)
(***************************************************************************)
\* exit statuses of the measurement subprocess (process.wait())
ReturnCodes == {0, 1, 2}

\* a slip in lines 601-604: only return code 1 counted as a failure
StatusOfReturnCode_OnlyOne(return_code) ==
    IF return_code = 1 THEN "failed" ELSE "completed"

\* lines 601-604: the status for the subprocess's return code
StatusOfReturnCode(return_code) ==
    IF return_code = 0 THEN "completed" ELSE "failed"

\* a slip in lines 843-857: the volume passed as the port and the port as the volume
PumpCall_ArgsSwapped(action, port, param) ==
    CASE action = "extract" -> [method |-> "extract", args |-> <<IntOf(param), port>>]
      [] action = "dispense" -> [method |-> "dispense", args |-> <<IntOf(param), port>>]
      [] action = "change_port" -> [method |-> "changePort", args |-> <<port>>]
      [] action = "empty_to_waste" -> [method |-> "dispenseToWaste", args |-> <<>>]
      [] action = "wait" -> [method |-> "sleep", args |-> <<param>>]
      [] OTHER -> [method |-> "none", args |-> <<>>]

\* the capability call execute_pump_action makes for an action, "none" when no branch matches
PumpCall(action, port, param) ==
    CASE action = "extract" -> [method |-> "extract", args |-> <<port, IntOf(param)>>]
      [] action = "dispense" -> [method |-> "dispense", args |-> <<port, IntOf(param)>>]
      [] action = "change_port" -> [method |-> "changePort", args |-> <<port>>]
      [] action = "empty_to_waste" -> [method |-> "dispenseToWaste", args |-> <<>>]
      [] action = "wait" -> [method |-> "sleep", args |-> <<param>>]
      [] OTHER -> [method |-> "none", args |-> <<>>]

\* lines 859-863: the status after the try block of execute_pump_action
StatusOfPumpCall(raised) == IF raised THEN "failed" ELSE "completed"

\* lines 831-834: the status without a bound pump
StatusWithoutPump == "skipped"

\* history: whether the dispatch a trace records failed
Outcome(trace) ==
    CASE trace.kind = "measurement" ->
             IF trace.raised \/ trace.return_code # 0 THEN "fail" ELSE "ok"
      [] trace.kind = "pump" -> IF trace.raised THEN "fail" ELSE "ok"
      [] OTHER -> "skip"

\* the list of threads without thread w
Without(w) == [i \in 1..(Len(threads) - 1) |-> IF i < w THEN threads[i] ELSE threads[i + 1]]

\* lines 561-566: the while condition, then take the head and mark it running
WorkerLoop(w) ==
    /\ threads[w].pc = "loop"
    /\ UNCHANGED <<measurement_queue, is_running, pump, saved, warning,
                   clean, snapshot, pumpAtRun, results, runner, forms>>
    /\ IF measurement_queue # <<>> /\ is_running
       THEN /\ threads' = [threads EXCEPT ![w].pc = "dispatch",
                                          ![w].current = Head(measurement_queue)]
            /\ items' = Collect(SetStatus(Head(measurement_queue), "running"))
       ELSE /\ threads' = [threads EXCEPT ![w].pc = "exit"]
            /\ items' = Collect(items)

\* lines 829-863: execute_pump_action(current)
execute_pump_action(w, raised) ==
    LET id == threads[w].current
        call == PumpCall(items[id].action, items[id].port, items[id].parameter)
    IN  IF ~pump
        THEN /\ ~raised
             /\ threads' = [threads EXCEPT ![w].pc = "pop",
                                           ![w].trace = [kind |-> "skip"]]
             /\ items' = Collect(SetStatus(id, StatusWithoutPump))
        ELSE /\ raised => call.method # "none"
             /\ threads' = [threads EXCEPT ![w].pc = "pop",
                                           ![w].trace = [kind |-> "pump", call |-> call,
                                                         raised |-> raised]]
             /\ items' = Collect(SetStatus(id, StatusOfPumpCall(raised)))

\* lines 574-608: the subprocess ends with return_code, or Popen or the read raises
execute_measurement(w, raised, return_code) ==
    LET id == threads[w].current
    IN  /\ raised => return_code = 0
        /\ threads' = [threads EXCEPT ![w].pc = "pop",
                                      ![w].trace = [kind |-> "measurement",
                                                    raised |-> raised,
                                                    return_code |-> return_code]]
        /\ items' = Collect(SetStatus(id, IF raised THEN "failed"
                                                    ELSE StatusOfReturnCode(return_code)))

\* lines 568-608: dispatch by type
WorkerDispatch(w) ==
    /\ threads[w].pc = "dispatch"
    /\ UNCHANGED <<measurement_queue, is_running, pump, saved, warning,
                   clean, snapshot, pumpAtRun, runner, forms>>
    /\ IF StartsWithPUMP(items[threads[w].current].type)
       THEN \E raised \in BOOLEAN : execute_pump_action(w, raised)
       ELSE \E raised \in BOOLEAN, return_code \in ReturnCodes :
                execute_measurement(w, raised, return_code)
    /\ results' = [i \in 1..Len(results) |->
                      IF snapshot[i] = threads[w].current
                      THEN Outcome(threads'[w].trace)
                      ELSE results[i]]

\* a slip in lines 606-611: a failed item ends the thread instead of being removed
WorkerPop_AbortOnFailure(w) ==
    /\ threads[w].pc = "pop"
    /\ UNCHANGED <<is_running, pump, saved, warning, clean, snapshot, pumpAtRun, results, runner, forms>>
    /\ IF measurement_queue = <<>> \/ items[threads[w].current].status = "failed"
       THEN /\ threads' = Without(w)
            /\ UNCHANGED measurement_queue
       ELSE /\ threads' = [threads EXCEPT ![w].pc = "loop", ![w].current = 0,
                                          ![w].trace = NoTrace]
            /\ measurement_queue' = Tail(measurement_queue)
    /\ items' = Collect(items)

\* line 611: measurement_queue.pop(0); IndexError on an empty list ends the thread
WorkerPop(w) ==
    /\ threads[w].pc = "pop"
    /\ UNCHANGED <<is_running, pump, saved, warning, clean, snapshot, pumpAtRun, results, runner, forms>>
    /\ IF measurement_queue = <<>>
       THEN /\ threads' = Without(w)
            /\ UNCHANGED measurement_queue
       ELSE /\ threads' = [threads EXCEPT ![w].pc = "loop", ![w].current = 0,
                                          ![w].trace = NoTrace]
            /\ measurement_queue' = Tail(measurement_queue)
    /\ items' = Collect(items)

\* line 616: self.is_running = False, and the thread ends
WorkerExit(w) ==
    /\ threads[w].pc = "exit"
    /\ threads' = Without(w)
    /\ is_running' = FALSE
    /\ UNCHANGED <<measurement_queue, pump, saved, warning, clean, snapshot, pumpAtRun, results, runner, forms>>
    /\ items' = Collect(items)

Loop == \E w \in Workers : WorkerLoop(w)
Dispatch == \E w \in Workers : WorkerDispatch(w)
Pop == \E w \in Workers : WorkerPop(w)
Exit == \E w \in Workers : WorkerExit(w)

(***************************************************************************)
(* run_measurement_serial.py: one execution of main(), the isolated        *)
(* measurement execution the queue's thread waits for.                     *)
(***************************************************************************)
\* max_timeout of run_script
max_timeout == 600
\* samples a session collects
MaxSamples == 2

\* the lines of the script file, script.strip().split('\n')
ScriptLines == <<"e", "meas_loop_cv">>

\* texts the device answers with (decoded and stripped)
DataTexts == {"P-500m;DA-2.345e-6;BA100u", "P100m;DA1u", "Pxyz;DA1u", "P100m;DA1e"}
CompletionTokens == {"*", "Measurement completed", "Script completed"}
RxTexts == DataTexts \cup CompletionTokens
               \cup {"P100m;BA100u", "!0004 Abort", "!0001", "e"}

\* text.startswith('P')
StartsWithP(text) == text \in DataTexts \cup {"P100m;BA100u"}
\* text.startswith('!')
StartsWithBang(text) == text \in {"!0004 Abort", "!0001"}
\* "abort" in text.lower()
HasAbort(text) == text = "!0004 Abort"

\* the characters of a text the device answers with (a str, character by character)
Chars(text) ==
    CASE text = "P-500m;DA-2.345e-6;BA100u" ->
             <<"P", "-", "5", "0", "0", "m", ";", "D", "A", "-", "2", ".", "3", "4", "5", "e", "-", "6", ";", "B", "A", "1", "0", "0", "u">>
      [] text = "P100m;DA1u" ->
             <<"P", "1", "0", "0", "m", ";", "D", "A", "1", "u">>
      [] text = "P100m;BA100u" ->
             <<"P", "1", "0", "0", "m", ";", "B", "A", "1", "0", "0", "u">>
      [] text = "Pxyz;DA1u" ->
             <<"P", "x", "y", "z", ";", "D", "A", "1", "u">>
      [] text = "P100m;DA1e" ->
             <<"P", "1", "0", "0", "m", ";", "D", "A", "1", "e">>
      [] OTHER -> <<>>

\* lines 184-187: the dict multipliers, in its order of iteration
Suffixes == <<"n", "u", "m", "", "k", "M">>
multipliers(suffix) ==
    CASE suffix = "n" -> Dec(1, -9) [] suffix = "u" -> Dec(1, -6)
      [] suffix = "m" -> Dec(1, -3) [] suffix = "" -> Dec(1, 0)
      [] suffix = "k" -> Dec(1, 3) [] suffix = "M" -> Dec(1, 6)
\* text.endswith(suffix)
EndsWith(cs, suffix) == suffix = "" \/ (cs # <<>> /\ cs[Len(cs)] = suffix)

\* lines 182-209, parse_value(text): the scientific notation goes to float() unguarded;
\* otherwise the first suffix of the dict the text ends with decides, and the empty
\* suffix, fourth in the dict, matches every text
parse_value(cs) ==
    IF \E i \in 1..Len(cs) : cs[i] \in {"e", "E"}
    THEN float(cs)
    ELSE LET i == CHOOSE i \in 1..Len(Suffixes) :
                      /\ EndsWith(cs, Suffixes[i])
                      /\ \A j \in 1..(i - 1) : ~EndsWith(cs, Suffixes[j])
             suffix == Suffixes[i]
             number == IF suffix # "" THEN SubSeq(cs, 1, Len(cs) - 1) ELSE cs
         IN  IF float(number).raised
             THEN Returned(Dec(0, 0))
             ELSE Returned(Times(float(number).value, multipliers(suffix)))

\* line.split(';')
RECURSIVE Split(_)
Split(cs) ==
    LET k == FirstIndex(cs, {";"})
    IN  IF k = 0 THEN <<cs>>
        ELSE <<SubSeq(cs, 1, k - 1)>> \o Split(SubSeq(cs, k + 1, Len(cs)))
\* part.startswith(prefix)
StartsWith(cs, prefix) ==
    Len(cs) >= Len(prefix) /\ SubSeq(cs, 1, Len(prefix)) = prefix

\* lines 162-173: the loop over the parts, from the data_point dict built so far
NoPoint == [has_potential |-> FALSE, potential |-> Dec(0, 0),
            has_current |-> FALSE, current |-> Dec(0, 0), raised |-> FALSE]
RECURSIVE ParseParts(_, _)
ParseParts(parts, point) ==
    IF parts = <<>> \/ point.raised THEN point
    ELSE LET part == Head(parts)
         IN  IF StartsWith(part, <<"P">>)
             THEN LET parsed == parse_value(SubSeq(part, 2, Len(part)))
                  IN  ParseParts(Tail(parts),
                          [point EXCEPT !.raised = parsed.raised,
                                        !.has_potential = ~parsed.raised,
                                        !.potential = Times(parsed.value, Dec(1, -3))])
             ELSE IF StartsWith(part, <<"D", "A">>)
             THEN LET parsed == parse_value(SubSeq(part, 3, Len(part)))
                  IN  ParseParts(Tail(parts),
                          [point EXCEPT !.raised = parsed.raised,
                                        !.has_current = ~parsed.raised,
                                        !.current = Times(parsed.value, Dec(1, 6))])
             ELSE ParseParts(Tail(parts), point)

\* lines 157-180, parse_data_line: the data_points after the line; a point is appended
\* when both fields were found, and an exception of a field drops the line
parse_data_line(text) ==
    LET point == ParseParts(Split(Chars(text)), NoPoint)
    IN  IF ~point.raised /\ point.has_potential /\ point.has_current
        THEN Append(data_points, [potential |-> point.potential,
                                  current |-> point.current])
        ELSE data_points

\* line 19, self.save_data = save_data: the instance attribute, a bool, is what
\* self.save_data names from then on; the method save_data of the class is hidden
self_save_data == TRUE
self_save_data_callable == FALSE

\* the process ends with this status
ExitWith(code) ==
    /\ at' = "exited"
    /\ exit_code' = code

\* lines 276-286: main() up to the runner's construction
Main ==
    /\ at = "main"
    /\ \E argv_ok \in BOOLEAN, exists \in BOOLEAN :
          IF ~argv_ok \/ ~exists
          THEN ExitWith(1)
          ELSE at' = "read" /\ UNCHANGED exit_code
    /\ UNCHANGED <<connection, sent, timeout_counter, data_points, loop_end, result,
                   disconnects, csv, silent_reads, decode, response, gui>>

\* lines 247-254: read the script; return 1 when open or read raises
ReadScript ==
    /\ at = "read"
    /\ \E raises \in BOOLEAN :
          IF raises
          THEN ExitWith(1)
          ELSE at' = "connect" /\ UNCHANGED exit_code
    /\ UNCHANGED <<connection, sent, timeout_counter, data_points, loop_end, result,
                   disconnects, csv, silent_reads, decode, response, gui>>

\* a connect() that takes an empty reply to the probe for a device
Connect_EmptyReplyAccepted ==
    /\ at = "connect"
    /\ \E port_found \in BOOLEAN, open_raises \in BOOLEAN, write_raises \in BOOLEAN,
          reply \in BOOLEAN :
          IF ~port_found \/ open_raises
          THEN /\ ExitWith(1)
               /\ UNCHANGED <<connection, sent, response>>
          ELSE IF write_raises
          THEN /\ ExitWith(1)
               /\ connection' = "open"
               /\ UNCHANGED <<sent, response>>
          ELSE /\ at' = "send"
               /\ connection' = "open"
               /\ sent' = Append(sent, "t")
               /\ response' = IF reply THEN "reply" ELSE "empty"
               /\ UNCHANGED exit_code
    /\ UNCHANGED <<timeout_counter, data_points, loop_end, result, disconnects, csv,
                   silent_reads, decode, gui>>

\* lines 53-86 and 257-259: connect(); run() returns 1 when it returns False
Connect ==
    /\ at = "connect"
    /\ \E port_found \in BOOLEAN, open_raises \in BOOLEAN, write_raises \in BOOLEAN,
          reply \in BOOLEAN :
          IF ~port_found \/ open_raises
          THEN /\ ExitWith(1)
               /\ UNCHANGED <<connection, sent, response>>
          ELSE IF write_raises
          THEN /\ ExitWith(1)
               /\ connection' = "open"
               /\ UNCHANGED <<sent, response>>
          ELSE IF ~reply
          THEN /\ ExitWith(1)
               /\ connection' = "open"
               /\ sent' = Append(sent, "t")
               /\ response' = "empty"
          ELSE /\ at' = "send"
               /\ connection' = "open"
               /\ sent' = Append(sent, "t")
               /\ response' = "reply"
               /\ UNCHANGED exit_code
    /\ UNCHANGED <<timeout_counter, data_points, loop_end, result, disconnects, csv,
                   silent_reads, decode, gui>>

\* lines 94-111: write the script line by line, then the empty line; a write that
\* raises after n lines ends run_script with False
SendScript ==
    /\ at = "send"
    /\ \E n \in 0..Len(ScriptLines), raises \in BOOLEAN :
          IF raises
          THEN /\ sent' = sent \o SubSeq(ScriptLines, 1, n)
               /\ at' = "finally"
               /\ result' = "return 1"
               /\ UNCHANGED timeout_counter
          ELSE /\ n = Len(ScriptLines)
               /\ sent' = sent \o ScriptLines \o <<"">>
               /\ at' = "receive"
               /\ timeout_counter' = 0
               /\ UNCHANGED result
    /\ UNCHANGED <<connection, data_points, loop_end, disconnects, csv, exit_code,
                   silent_reads, decode, response, gui>>

\* an empty read that counts twice
ReceiveNothing_CountsTwice ==
    /\ at = "receive"
    /\ timeout_counter < max_timeout
    /\ timeout_counter' = timeout_counter + 2
    /\ \E raised \in BOOLEAN :
          silent_reads' = IF raised \/ silent_reads < 0 THEN -1 ELSE silent_reads + 1
    /\ UNCHANGED <<at, connection, sent, data_points, loop_end, result, disconnects,
                   csv, exit_code, decode, response, gui>>

\* lines 113-118, 144-146: an empty read, or a SerialTimeoutException raised by the read
ReceiveNothing ==
    /\ at = "receive"
    /\ timeout_counter < max_timeout
    /\ timeout_counter' = timeout_counter + 1
    /\ \E raised \in BOOLEAN :
          silent_reads' = IF raised \/ silent_reads < 0 THEN -1 ELSE silent_reads + 1
    /\ UNCHANGED <<at, connection, sent, data_points, loop_end, result, disconnects,
                   csv, exit_code, decode, response, gui>>

\* lines 121-123: a line that is empty once stripped
ReceiveBlank ==
    /\ at = "receive"
    /\ timeout_counter < max_timeout
    /\ silent_reads' = -1
    /\ UNCHANGED <<at, connection, sent, timeout_counter, data_points, loop_end, result,
                   disconnects, csv, exit_code, decode, response, gui>>

\* a receive step that ends the loop at every error line
ReceiveText_AnyErrorEnds(text) ==
    /\ at = "receive"
    /\ timeout_counter < max_timeout
    /\ StartsWithP(text) /\ parse_data_line(text) # data_points
           => Len(data_points) < MaxSamples
    /\ data_points' = IF StartsWithP(text) THEN parse_data_line(text) ELSE data_points
    /\ IF text \in CompletionTokens
       THEN /\ at' = "save"
            /\ loop_end' = "completed"
            /\ UNCHANGED timeout_counter
       ELSE IF StartsWithBang(text)
       THEN /\ at' = "save"
            /\ loop_end' = "aborted"
            /\ UNCHANGED timeout_counter
       ELSE /\ timeout_counter' = 0
            /\ UNCHANGED <<at, loop_end>>
    /\ silent_reads' = -1
    /\ UNCHANGED <<connection, sent, result, disconnects, csv, exit_code, decode, response, gui>>

\* lines 125-142: a line of text
ReceiveText(text) ==
    /\ at = "receive"
    /\ timeout_counter < max_timeout
    /\ StartsWithP(text) /\ parse_data_line(text) # data_points
           => Len(data_points) < MaxSamples
    /\ data_points' = IF StartsWithP(text) THEN parse_data_line(text) ELSE data_points
    /\ IF text \in CompletionTokens
       THEN /\ at' = "save"
            /\ loop_end' = "completed"
            /\ UNCHANGED timeout_counter
       ELSE IF StartsWithBang(text) /\ HasAbort(text)
       THEN /\ at' = "save"
            /\ loop_end' = "aborted"
            /\ UNCHANGED timeout_counter
       ELSE /\ timeout_counter' = 0
            /\ UNCHANGED <<at, loop_end>>
    /\ silent_reads' = -1
    /\ UNCHANGED <<connection, sent, result, disconnects, csv, exit_code, decode, response, gui>>

Receive == \E text \in RxTexts : ReceiveText(text)

\* line 115 raising anything but SerialTimeoutException: lines 153-155, return False
ReceiveRaises ==
    /\ at = "receive"
    /\ timeout_counter < max_timeout
    /\ at' = "finally"
    /\ result' = "return 1"
    /\ silent_reads' = -1
    /\ UNCHANGED <<connection, sent, timeout_counter, data_points, loop_end, disconnects,
                   csv, exit_code, decode, response, gui>>

\* lines 113, 148-151: the while condition fails
ReceiveTimeout ==
    /\ at = "receive"
    /\ timeout_counter >= max_timeout
    /\ at' = "save"
    /\ loop_end' = "timeout"
    /\ UNCHANGED <<connection, sent, timeout_counter, data_points, result, disconnects,
                   csv, exit_code, silent_reads, decode, response, gui>>

\* the save step with the finally clause left out of the raising path
SaveData_RaiseEscapes ==
    /\ at = "save"
    /\ IF self_save_data /\ data_points # <<>>
       THEN /\ result' = "raise"
            /\ ExitWith(1)
       ELSE /\ result' = "return 0"
            /\ at' = "finally"
            /\ UNCHANGED exit_code
    /\ UNCHANGED <<connection, sent, timeout_counter, data_points, loop_end, disconnects,
                   csv, silent_reads, decode, response, gui>>

\* lines 263-268: run_script returned True; self.save_data() calls the bool of line 19,
\* a TypeError, when there are data points
SaveData ==
    /\ at = "save"
    /\ IF self_save_data /\ data_points # <<>>
       THEN IF self_save_data_callable
            THEN /\ csv' = <<"Potential (V),Current (uA)">> \o data_points
                 /\ result' = "return 0"
            ELSE /\ result' = "raise"
                 /\ UNCHANGED csv
       ELSE /\ result' = "return 0"
            /\ UNCHANGED csv
    /\ at' = "finally"
    /\ UNCHANGED <<connection, sent, timeout_counter, data_points, loop_end, disconnects,
                   exit_code, silent_reads, decode, response, gui>>

\* lines 231-238, 272-273, 287-288: disconnect(), then the process ends with what run()
\* returned, or with 1 and a traceback when run() raised
Finally ==
    /\ at = "finally"
    /\ disconnects' = disconnects + 1
    /\ connection' = IF connection = "open" THEN "closed" ELSE connection
    /\ ExitWith(IF result = "return 0" THEN 0 ELSE 1)
    /\ UNCHANGED <<sent, timeout_counter, data_points, loop_end, result, csv,
                   silent_reads, decode, response, gui>>

NextSession ==
    \/ Main
    \/ ReadScript
    \/ Connect
    \/ SendScript
    \/ ReceiveNothing
    \/ ReceiveBlank
    \/ Receive
    \/ ReceiveRaises
    \/ ReceiveTimeout
    \/ SaveData
    \/ Finally

SpecSession == Init /\ [][NextSession]_vars

(***************************************************************************)
(* parse_value and parse_data_line applied to the texts of a bounded set.  *)
(***************************************************************************)
\* texts handed to parse_value: [sign] number [suffix], and two texts of their own
ValueSigns == {<<>>, <<"-">>}
ValueNumbers == {<<"5">>, <<"1", "0", "0">>, <<"2", ".", "5">>, <<"1", "e", "3">>,
                 <<"x">>, <<>>}
ValueSuffixes == {<<>>, <<"n">>, <<"u">>, <<"m">>, <<"k">>, <<"M">>}
ValueTexts ==
    {sign \o number \o suffix :
         sign \in ValueSigns, number \in ValueNumbers, suffix \in ValueSuffixes}
    \cup {<<"g", "a", "r", "b", "a", "g", "e">>,
          <<"-", "2", ".", "3", "4", "5", "e", "-", "6">>}
\* the lines handed to parse_data_line
LineTexts == DataTexts \cup {"P100m;BA100u"}

\* a text arrives for parse_value
ReadValue(cs) ==
    /\ at = "main"
    /\ value_text' = cs
    /\ value' = [called |-> FALSE]
    /\ UNCHANGED <<at, connection, sent, timeout_counter, data_points, loop_end, result,
                   disconnects, csv, exit_code, silent_reads, response, gui>>

\* lines 182-209: parse_value(value_text) is called
ParseValue ==
    /\ at = "main"
    /\ ~value.called
    /\ value' = [called |-> TRUE, raised |-> parse_value(value_text).raised,
                 value |-> parse_value(value_text).value]
    /\ UNCHANGED <<at, connection, sent, timeout_counter, data_points, loop_end, result,
                   disconnects, csv, exit_code, silent_reads, value_text, response, gui>>

\* lines 157-180: parse_data_line(text) is called
DecodeLine(text) ==
    /\ at = "main"
    /\ Len(data_points) < MaxSamples
    /\ data_points' = parse_data_line(text)
    /\ UNCHANGED <<at, connection, sent, timeout_counter, loop_end, result,
                   disconnects, csv, exit_code, silent_reads, decode, response, gui>>

NextDecode ==
    \/ \E cs \in ValueTexts : ReadValue(cs)
    \/ ParseValue
    \/ \E text \in LineTexts : DecodeLine(text)

SpecDecode == Init /\ [][NextDecode]_vars

(***************************************************************************)
(* The method tab: the forms, the encoders and the enqueue buttons.        *)
(***************************************************************************)
NextForms ==
    \/ show_cv_params
    \/ show_swv_params
    \/ Edit
    \/ generate_cv_script
    \/ generate_swv_script
    \/ AddCvToQueue
    \/ AddSwvToQueue

SpecForms == Init /\ [][NextForms]_vars

(***************************************************************************)
(* Specifications.  Spec: the run, stop and clear buttons against the      *)
(* threads, over one kind of item.  SpecDispatch: every kind of item the   *)
(* forms enqueue, dispatched by run_queue's thread.  SpecFiles: the queue  *)
(* file, saved and loaded while threads run.                               *)
(***************************************************************************)
Next ==
    \/ AddCvToQueue
    \/ RunQueue
    \/ StopQueue
    \/ ClearQueue
    \/ Loop
    \/ Dispatch
    \/ Pop
    \/ Exit

Spec == Init /\ [][Next]_vars

NextDispatch ==
    \/ AddCvToQueue
    \/ AddPumpToQueue
    \/ ConnectPump
    \/ RunQueue
    \/ Loop
    \/ Dispatch
    \/ Pop
    \/ Exit

SpecDispatch == Init /\ [][NextDispatch]_vars

NextFiles ==
    \/ AddCvToQueue
    \/ AddDispenseToQueue
    \/ ConnectPump
    \/ RunQueue
    \/ ClearQueue
    \/ SaveQueue
    \/ LoadQueue
    \/ Loop
    \/ Dispatch
    \/ Pop
    \/ Exit

SpecFiles == Init /\ [][NextFiles]_vars


(***************************************************************************)
(* The claims.                                                             *)
(***************************************************************************)
\* thread w is in the list of threads before and after the step, at the same index
Stays(w) == Len(threads') = Len(threads)
\* the step is thread w taking the head of the list (lines 561-563)
Takes(w) == threads[w].pc = "loop" /\ Stays(w) /\ threads'[w].pc = "dispatch"
\* the step is the end of thread w's dispatch (lines 568-608)
Dispatches(w) == threads[w].pc = "dispatch" /\ Stays(w) /\ threads'[w].pc = "pop"
\* the step is thread w's measurement_queue.pop(0) (line 611)
Pops(w) == threads[w].pc = "pop" /\ Stays(w) /\ threads'[w].pc = "loop"

\* C1: failure isolation.  When the thread of an undisturbed run_queue (no stop_queue,
\* no change of the list by the GUI since it was accepted) with a pump bound has ended,
\* every item the list held at run_queue was dispatched, an item whose dispatch failed
\* is Failed and one whose dispatch succeeded is Completed, and the list is empty.
C1_FailureIsolation ==
    (clean /\ pumpAtRun /\ threads = <<>>) =>
        /\ measurement_queue = <<>>
        /\ \A i \in 1..Len(snapshot) :
              /\ results[i] \in {"ok", "fail"}
              /\ results[i] = "fail" => items[snapshot[i]].status = "failed"
              /\ results[i] = "ok" => items[snapshot[i]].status = "completed"

\* C1 witness: [Measurement(fails), PumpDispense(succeeds)] ended Failed, Completed
\* with an empty list
C1_Witness ==
    /\ clean /\ pumpAtRun /\ threads = <<>>
    /\ Len(snapshot) = 2
    /\ ~StartsWithPUMP(items[snapshot[1]].type)
    /\ items[snapshot[2]].type = "PUMP_DISPENSE"
    /\ results = <<"fail", "ok">>
    /\ items[snapshot[1]].status = "failed"
    /\ items[snapshot[2]].status = "completed"
    /\ measurement_queue = <<>>

\* C2: single worker.  At most one thread is inside execute_queue_serial.
C2_SingleWorker == Len(threads) <= 1

\* C3: stop.  Once stop_queue was called with thread w's item in flight, the dispatch is
\* left to end (stop_queue moves no thread), w takes no further item, and when w removes
\* its item the items left in the list are Pending.
C3_Stop ==
    [][/\ \A w \in Workers :
             (Stays(w) /\ threads'[w].stopped /\ ~threads[w].stopped)
                 => (threads[w].pc = "dispatch" /\ threads'[w].pc = "dispatch")
       /\ \A w \in Workers : threads[w].stopped => ~Takes(w)
       /\ \A w \in Workers :
             (threads[w].stopped /\ Pops(w))
                 => \A i \in 1..Len(measurement_queue') :
                        items'[measurement_queue'[i]].status = "pending"
      ]_vars

\* C4: clear_queue with is_running set shows the warning and leaves the list and every
\* item as they were; with is_running clear it leaves the list empty.
C4_ClearQueue ==
    [][clear_queue =>
          IF is_running
          THEN /\ warning' = "Queue Running"
               /\ measurement_queue' = measurement_queue
               /\ items' = items
          ELSE measurement_queue' = <<>>
      ]_vars

\* C4 witness: clear_queue was refused with a thread at work on a list of two items
C4_Witness ==
    /\ warning = "Queue Running"
    /\ is_running
    /\ threads # <<>>
    /\ Len(measurement_queue) = 2

\* C5: exclusive mutation.  While a thread is in execute_queue_serial, the list changes
\* only by a thread's pop: load_queue and the enqueue handlers leave it as it was.
C5_ExclusiveMutation ==
    [][(threads # <<>> /\ measurement_queue' # measurement_queue) => Pop]_vars

\* C6: save_queue with is_running set writes nothing.
C6_SaveRejectedWhileRunning == [][is_running => saved' = saved]_vars

\* C7: status monotonicity.  A thread marks an item Running only when it is Pending, and
\* the status of an item changes only from Pending to Running and from Running to
\* Completed, Failed or Skipped.
C7_StatusMonotonic ==
    [][/\ \A w \in Workers :
             Takes(w) => items[threads'[w].current].status = "pending"
       /\ \A id \in Ids :
             (items[id] # Free /\ items'[id] # Free
                 /\ items'[id].status # items[id].status)
                 => \/ items[id].status = "pending" /\ items'[id].status = "running"
                    \/ items[id].status = "running" /\ items'[id].status \in Terminal
      ]_vars

\* C8: measurement dispatch.  Return code 0 gives Completed; a non-zero return code, and
\* an exception while the subprocess is launched or read, give Failed.
C8_MeasurementStatus ==
    [][\A w \in Workers :
          (Dispatches(w) /\ ~StartsWithPUMP(items[threads[w].current].type))
              => /\ threads'[w].trace.kind = "measurement"
                 /\ items'[threads[w].current].status =
                        IF ~threads'[w].trace.raised /\ threads'[w].trace.return_code = 0
                        THEN "completed" ELSE "failed"
      ]_vars

\* C8 witness: a measurement whose subprocess returned 2 is Failed
C8_Witness ==
    \E w \in Workers :
        /\ threads[w].pc = "pop"
        /\ threads[w].trace.kind = "measurement"
        /\ ~threads[w].trace.raised
        /\ threads[w].trace.return_code = 2
        /\ items[threads[w].current].status = "failed"

\* the capability call the claim names for each of the five actions
ClaimedCall(item) ==
    CASE item.action = "extract" ->
             [method |-> "extract", args |-> <<item.port, IntOf(item.parameter)>>]
      [] item.action = "dispense" ->
             [method |-> "dispense", args |-> <<item.port, IntOf(item.parameter)>>]
      [] item.action = "change_port" -> [method |-> "changePort", args |-> <<item.port>>]
      [] item.action = "empty_to_waste" -> [method |-> "dispenseToWaste", args |-> <<>>]
      [] item.action = "wait" -> [method |-> "sleep", args |-> <<item.parameter>>]

FiveActions == {"extract", "dispense", "change_port", "empty_to_waste", "wait"}

\* C9: pump dispatch.  For an item with one of the five actions: without a bound pump it
\* is Skipped and nothing is called; with one, the matching capability method is called
\* with the stored port and parameter and the item is Completed when the call returns
\* and Failed when it raises; in each case the thread goes on to remove the item.
C9_PumpDispatch ==
    [][\A w \in Workers :
          (threads[w].pc = "dispatch" /\ threads' # threads
              /\ StartsWithPUMP(items[threads[w].current].type)
              /\ items[threads[w].current].action \in FiveActions)
              => /\ Dispatches(w)
                 /\ IF ~pump
                    THEN /\ threads'[w].trace.kind = "skip"
                         /\ items'[threads[w].current].status = "skipped"
                    ELSE /\ threads'[w].trace.kind = "pump"
                         /\ threads'[w].trace.call = ClaimedCall(items[threads[w].current])
                         /\ items'[threads[w].current].status =
                                IF threads'[w].trace.raised THEN "failed" ELSE "completed"
      ]_vars

\* C9 witness: a dispense with a bound pump was called with the stored port and volume
\* and raised, and the item is Failed
C9_Witness ==
    \E w \in Workers :
        /\ threads[w].pc = "pop"
        /\ StartsWithPUMP(items[threads[w].current].type)
        /\ items[threads[w].current].action = "dispense"
        /\ threads[w].trace.kind = "pump"
        /\ threads[w].trace.call = [method |-> "dispense", args |-> <<2, 3>>]
        /\ threads[w].trace.raised
        /\ items[threads[w].current].status = "failed"

\* C10: exit status.  The process exits with 0 when the script was read, the handshake
\* succeeded and the receive loop ended on a completion token, whatever the number of
\* samples collected; it exits non-zero when the script is missing or unreadable, the
\* connection fails or the transport raises during the session.
C10_ExitStatus ==
    at = "exited" =>
        /\ loop_end = "completed" => exit_code = 0
        /\ (loop_end = "" \/ result = "return 1") => exit_code # 0


\* C11: partial samples are saved.  When the receive loop ended by timeout or by a device
\* abort with at least one sample collected, the result file holds the heading and one
\* row per sample, in arrival order, once the process has ended.
C11_PartialSamplesSaved ==
    (at = "exited" /\ loop_end \in {"timeout", "aborted"} /\ data_points # <<>>)
        => (csv # <<>> /\ Tail(csv) = data_points)

\* C12: bounded wait.  A session whose every read after the script was sent returned
\* nothing leaves the receive loop after exactly 600 reads, by the timeout, with no
\* sample, and disconnect() was called once the process has ended.
C12_BoundedWait ==
    /\ (at = "receive" /\ silent_reads >= 0) => silent_reads <= max_timeout
    /\ (at \in {"save", "finally", "exited"} /\ loop_end # "" /\ silent_reads >= 0)
           => /\ silent_reads = max_timeout
              /\ max_timeout = 600
              /\ loop_end = "timeout"
              /\ data_points = <<>>
              /\ at = "exited" => (disconnects = 1 /\ connection = "closed")

\* C12 witness: the process has ended after 600 reads that returned nothing
C12_Witness ==
    /\ at = "exited"
    /\ silent_reads = 600
    /\ loop_end = "timeout"
    /\ data_points = <<>>
    /\ disconnects = 1

\* the script and its terminating empty line were written: run_script is in, or past,
\* its receive loop
EnteredReceive == Len(sent) = Len(ScriptLines) + 2

\* C13: disconnect on every exit from the receive loop.  However the loop ended
\* (completion token, timeout, abort line, an exception of the transport or of the code
\* after the loop), disconnect() was called exactly once when the process has ended, and
\* not before the loop ended.
C13_DisconnectOnce ==
    /\ disconnects <= 1
    /\ (EnteredReceive /\ at \in {"receive", "save", "finally"}) => disconnects = 0
    /\ (EnteredReceive /\ at = "exited") => (disconnects = 1 /\ connection = "closed")

\* C13 witness: the code after the loop raised and disconnect() was called once
C13_Witness ==
    /\ EnteredReceive
    /\ at = "exited"
    /\ loop_end = "aborted"
    /\ result = "raise"
    /\ disconnects = 1
    /\ connection = "closed"

\* C14: sample decoding.  The line "P-500m;DA-2.345e-6;BA100u" appends exactly one sample,
\* with potential -0.5 (volts) and current -2.345 (microamps).
C14_SampleDecoding ==
    [][DecodeLine("P-500m;DA-2.345e-6;BA100u")
          => data_points' = Append(data_points, [potential |-> Dec(-5, -1),
                                                 current |-> Dec(-2345, -3)])
      ]_vars

\* C15: best-effort decode.  parse_value returns a number for every text and never
\* raises; it returns 0.0 when the numeric portion cannot be parsed.
C15_BestEffortDecode ==
    value.called =>
        /\ ~value.raised
        /\ (/\ float(value_text).raised
            /\ float(SubSeq(value_text, 1, Len(value_text) - 1)).raised)
               => value.value = Dec(0, 0)

\* C16: suffix priority.  For a valid numeric literal x and a suffix s of n, u, m, k, M,
\* parse_value(x followed by s) is x times the multiplier of s.
C16_SuffixPriority ==
    (/\ value.called
     /\ value_text # <<>>
     /\ value_text[Len(value_text)] \in {"n", "u", "m", "k", "M"}
     /\ ~float(SubSeq(value_text, 1, Len(value_text) - 1)).raised)
        => /\ ~value.raised
           /\ value.value =
                  Times(float(SubSeq(value_text, 1, Len(value_text) - 1)).value,
                        multipliers(value_text[Len(value_text)]))

(***************************************************************************)
(* Claims about the method tab (SpecForms).                                *)
(***************************************************************************)
\* every entry of the form holds a number
ValidParams(p) == \A key \in DOMAIN p : ValidEntry(key, p[key])
\* the positions of the lines of a script whose command is one of ops
LinesWith(script, ops) == {i \in 1..Len(script) : script[i].op \in ops}
CvLoopOps ==
    {"meas_loop_cv p c {} {} {} {} {}", "meas_loop_cv p c {} {} {} {} {} nscans({})"}
CaLoopOps == {"meas_loop_ca p c {} 100m {}"}
SwvLoopOps == {"meas_loop_swv p c f r {} {} {} {} {}"}
\* the packet block of the CV loop, the end of the loop and the on_finished handler
CvEnding ==
    <<Plain("\tpck_start"), Plain("\tpck_add p"), Plain("\tpck_add c"), Plain("\tpck_end"),
      Plain("endloop"), Plain("on_finished:"), Plain("cell_off"), Plain("")>>
CvStructure(script) ==
    /\ Cardinality(LinesWith(script, CvLoopOps)) = 1
    /\ Cardinality(LinesWith(script, CaLoopOps)) <= 1
    /\ \A i \in LinesWith(script, CaLoopOps) : \A j \in LinesWith(script, CvLoopOps) : i < j
    /\ \A j \in LinesWith(script, CvLoopOps) :
           SubSeq(script, j + 1, Len(script)) = CvEnding

\* C17: whenever a CV script is generated from a form whose entries are all numbers
\* (by the Generate Script button or by Add to Queue), the script is the one the
\* encoder gives for these entries, every time; it has exactly one meas_loop_cv line,
\* at most one meas_loop_ca line, which comes before it, and after the meas_loop_cv
\* line come the packet block, endloop, on_finished: and cell_off, and nothing else.
C17_CvDeterminismAndStructure ==
    [][(generate_cv_script \/ add_cv_to_queue) /\ ValidParams(params)
       => /\ current_script' = create_cv_methodscript(params).script
          /\ CvStructure(current_script')]_vars
\* a CV script with a conditioning block and several scans was generated from the form
C17_Witness ==
    /\ current_technique = "CV"
    /\ ValidParams(params)
    /\ float(params.cond_time).value.m > 0
    /\ int(params.n_scans).value > 1
    /\ current_script = create_cv_methodscript(params).script
    /\ Cardinality(LinesWith(current_script, CaLoopOps)) = 1

\* the script holds the cell at potential pot for the time secs before its measurement loop
HoldsBefore(script, pot, secs, loopOps) ==
    \E i \in 1..Len(script) :
        /\ script[i] = Line("meas_loop_ca p c {} 100m {}", <<pot, secs>>)
        /\ \A j \in LinesWith(script, loopOps) : i < j
\* the script turns the cell on at zero potential and has no conditioning loop
BareCellOn(script) ==
    /\ LinesWith(script, CaLoopOps) = {}
    /\ \E i \in 1..Len(script) - 1 :
           /\ script[i] \in {Plain("set_e 0"), Plain("set_e 0m")}
           /\ script[i + 1] = Plain("cell_on")
ConditioningRule(p, script, loopOps) ==
    IF float(p.cond_time).value.m > 0
    THEN HoldsBefore(script, p.cond_potential, p.cond_time, loopOps)
    ELSE BareCellOn(script)

\* C18: a script generated from a form whose entries are all numbers, CV or SWV, holds
\* the cell at the text of cond_potential for the text of cond_time before the
\* measurement loop when cond_time > 0, and otherwise has set_e 0 followed by cell_on
\* and no conditioning loop.
C18_ConditioningRule ==
    [][/\ (generate_cv_script \/ add_cv_to_queue) /\ ValidParams(params)
          => ConditioningRule(params, current_script', CvLoopOps)
       /\ (generate_swv_script \/ add_swv_to_queue) /\ ValidParams(params)
          => ConditioningRule(params, current_script', SwvLoopOps)]_vars

\* exact decimal arithmetic: the integer d * 10^-e for a decimal d with d.e >= e
ScaledTo(d, e) == d.m * (10 ^ (d.e - e))
LeastExponent(ds) == CHOOSE e \in {d.e : d \in ds} : \A d \in ds : e <= d.e
\* n * 10^e truncated toward zero
Truncated(n, e) ==
    IF e >= 0 THEN n * (10 ^ (e))
    ELSE IF n >= 0 THEN n \div (10 ^ (0 - e)) ELSE 0 - ((0 - n) \div (10 ^ (0 - e)))
Least(a, b) == IF a <= b THEN a ELSE b
Greatest(a, b) == IF a >= b THEN a ELSE b
\* 1000 * (min(begin, end) - amplitude) and 1000 * (max(begin, end) + amplitude) in
\* exact arithmetic, truncated toward zero
ExactMinMv(p) ==
    LET b == float(p.begin_potential).value
        n == float(p.end_potential).value
        a == float(p.amplitude).value
        e == LeastExponent({b, n, a})
    IN  Truncated(1000 * (Least(ScaledTo(b, e), ScaledTo(n, e)) - ScaledTo(a, e)), e)
ExactMaxMv(p) ==
    LET b == float(p.begin_potential).value
        n == float(p.end_potential).value
        a == float(p.amplitude).value
        e == LeastExponent({b, n, a})
    IN  Truncated(1000 * (Greatest(ScaledTo(b, e), ScaledTo(n, e)) + ScaledTo(a, e)), e)

\* C19: an SWV script generated from a form whose entries are all numbers has the line
\* set_range_minmax da <min>m <max>m where min and max are 1000*(min(begin,end) -
\* amplitude) and 1000*(max(begin,end) + amplitude) truncated toward zero; from
\* begin -0.5, end 0.5 and amplitude 0.02 they are -520 and 520.
C19_SwvAnalogRange ==
    [][(generate_swv_script \/ add_swv_to_queue) /\ ValidParams(params)
       => /\ \E i \in 1..Len(current_script') :
                 current_script'[i] = Line("set_range_minmax da {}m {}m",
                                           <<Str(ExactMinMv(params)), Str(ExactMaxMv(params))>>)
          /\ (/\ params.begin_potential = <<"-", "0", ".", "5">>
              /\ params.end_potential = <<"0", ".", "5">>
              /\ params.amplitude = <<"0", ".", "0", "2">>)
             => ExactMinMv(params) = -520 /\ ExactMaxMv(params) = 520]_vars

\* C20: when an entry of the form, whichever it is, does not hold a number, Generate
\* Script and Add to Queue, for CV and for SWV, fail with the error box, produce no
\* script and append no item to the queue.
C20_InvalidParameters ==
    [][/\ \/ generate_cv_script \/ add_cv_to_queue
          \/ generate_swv_script \/ add_swv_to_queue
       /\ ~ValidParams(params)
       => /\ warning' = "Failed to generate script"
          /\ current_script' = current_script
          /\ measurement_queue' = measurement_queue
          /\ items' = items]_vars

(***************************************************************************)
(* Claims about the display, the order of dispatch and the removal.        *)
(***************************************************************************)
\* a refresh that reads the list q shows the item id with the status s
Shown(id, s, q, its) ==
    \E i \in 1..Len(q) :
        /\ q[i] = id
        /\ refresh_queue_display(q, its)[i].status = s

\* C21: the refresh a thread schedules after it gave an item a status reads the list
\* no earlier than the end of the step that schedules it.  After the item was marked
\* running (lines 563-565) that refresh shows it RUNNING, and after the item got its
\* terminal status (lines 601-612) that refresh shows it COMPLETED, FAILED or SKIPPED.
C21_ObservableStatus ==
    [][\A w \in Workers :
          /\ Takes(w) => Shown(threads'[w].current, "RUNNING", measurement_queue', items')
          /\ Pops(w) => \E s \in {"COMPLETED", "FAILED", "SKIPPED"} :
                            Shown(threads[w].current, s, measurement_queue', items')]_vars

\* C22: whenever a thread takes an item to dispatch it, the item is the head of the
\* list, it was not dispatched before (it is still pending), and no other thread has a
\* dispatch in flight.
C22_SequentialAtMostOnce ==
    [][\A w \in Workers :
          Takes(w) => /\ threads'[w].current = Head(measurement_queue)
                      /\ items[Head(measurement_queue)].status = "pending"
                      /\ \A v \in Workers \ {w} : threads[v].pc # "dispatch"]_vars

(***************************************************************************)
(* Claims about the receive loop and the connection (SpecSession).         *)
(***************************************************************************)
\* C23: in the receive loop an empty read adds one to timeout_counter, and a read that
\* returned bytes, a line that is blank once stripped included, sets it to 0 when the
\* loop goes on; so the 600 empty reads of a timeout have no line between them.
C23_TimeoutCounter ==
    [][/\ ReceiveNothing => timeout_counter' = timeout_counter + 1
       /\ (ReceiveBlank \/ Receive) /\ at' = "receive" => timeout_counter' = 0]_vars

\* the positions of run() after the receive loop
AfterLoop == {"save", "finally", "exited"}
\* the lines that end the loop: the completion tokens, and the error line with an abort
EndingTexts == {"*", "Measurement completed", "Script completed", "!0004 Abort"}

\* C24 as stated: the receive loop ends only with a completion token, with an error
\* line that holds "abort", or with the timeout.
C24_OnlyThreeExits ==
    [][at = "receive" /\ at' # "receive"
       => loop_end' \in {"completed", "aborted", "timeout"}]_vars

\* C24, amended: a line ends the loop exactly when it is a completion token or an
\* error line that holds "abort" in any letter case; an empty read and a blank line do
\* not end it; the loop ends otherwise only when timeout_counter has reached
\* max_timeout or when the read raises; and after the loop no sample is appended and
\* the loop is not entered again.
C24_ReceiveLoopExits ==
    [][/\ \A text \in RxTexts :
             ReceiveText(text) =>
                 /\ at' # "receive" <=> text \in EndingTexts
                 /\ text \in CompletionTokens => loop_end' = "completed"
                 /\ text = "!0004 Abort" => loop_end' = "aborted"
       /\ ReceiveNothing \/ ReceiveBlank => at' = "receive"
       /\ at = "receive" /\ at' # "receive" /\ loop_end' = "timeout"
             => timeout_counter >= max_timeout
       /\ at = "receive" /\ at' # "receive" /\ loop_end' = ""
             => at' = "finally" /\ result' = "return 1"
       /\ at \in AfterLoop => at' \in AfterLoop /\ data_points' = data_points]_vars
\* the loop was ended by the abort line after samples had been collected
C24_Witness ==
    /\ at = "save"
    /\ loop_end = "aborted"
    /\ data_points # <<>>
    /\ timeout_counter > 0

\* the texts of the fields of a line that begin with prefix, the prefix taken off
FieldTexts(text, prefix) ==
    {SubSeq(Split(Chars(text))[i], Len(prefix) + 1, Len(Split(Chars(text))[i])) :
         i \in {j \in 1..Len(Split(Chars(text))) : StartsWith(Split(Chars(text))[j], prefix)}}
\* a value text is a number, or a number followed by an SI suffix
Decodable(cs) ==
    \/ ~float(cs).raised
    \/ /\ cs # <<>>
       /\ cs[Len(cs)] \in {"n", "u", "m", "k", "M"}
       /\ ~float(SubSeq(cs, 1, Len(cs) - 1)).raised

\* C25: a line received in the loop appends at most one sample and leaves the samples
\* before it as they were; it appends one only if it begins with P and has a potential
\* field and a DA field that are both decodable; whatever the line, nothing is raised
\* to run() and a line that is not an ending line leaves the loop collecting.
C25_SampleEmission ==
    [][\A text \in RxTexts :
          ReceiveText(text) =>
              /\ \/ data_points' = data_points
                 \/ /\ Len(data_points') = Len(data_points) + 1
                    /\ SubSeq(data_points', 1, Len(data_points)) = data_points
                    /\ Chars(text) # <<>> /\ Chars(text)[1] = "P"
                    /\ FieldTexts(text, <<"P">>) # {}
                    /\ FieldTexts(text, <<"D", "A">>) # {}
                    /\ \A cs \in FieldTexts(text, <<"P">>) \cup FieldTexts(text, <<"D", "A">>) :
                           Decodable(cs)
              /\ result' = result
              /\ text \notin EndingTexts => at' = "receive"]_vars

\* seq is the beginning of whole
Prefix(seq, whole) == Len(seq) <= Len(whole) /\ seq = SubSeq(whole, 1, Len(seq))
\* everything a session writes: the probe, the lines of the script, the empty line
WholeSession == <<"t">> \o ScriptLines \o <<"">>

\* C26: what is written to the transport is the probe, once, and after it the lines of
\* the script in order; a script line is written only when the probe got a reply;
\* when connect() has failed (no port, the open or the probe write raised, or the reply
\* was empty) the process ends with status 1 and nothing but the probe was written;
\* and the reads of the receive loop begin after the whole script and the empty line.
C26_HandshakeBeforeScript ==
    /\ Prefix(sent, WholeSession)
    /\ Len(sent) > 1 => response = "reply"
    /\ at \notin {"main", "read", "connect"} /\ response # "reply"
          => at = "exited" /\ exit_code = 1 /\ Len(sent) <= 1
    /\ at = "receive" \/ loop_end # "" \/ silent_reads # 0 => sent = WholeSession
\* the receive loop runs after the probe was answered and the script was sent
C26_Witness ==
    /\ at = "receive"
    /\ response = "reply"
    /\ sent = WholeSession
    /\ timeout_counter > 0

\* C29: when run() has returned (the process has ended) after it opened the serial
\* transport, the transport is closed, the handshake failure included.
C29_TransportRelease ==
    at = "exited" /\ connection # "None" => connection = "closed"

(***************************************************************************)
(* Further claims about the method tab (SpecForms).                        *)
(***************************************************************************)
\* the handler showed the error box, produced no script and appended no item
Rejected ==
    /\ warning' = "Failed to generate script"
    /\ current_script' = current_script
    /\ measurement_queue' = measurement_queue
    /\ items' = items

\* C27: Generate Script and Add to Queue reject a CV form whose number of scans is not
\* an integer of at least 1 and an SWV form whose frequency is not a number above 0:
\* no script is produced and no item is appended, so every script that is enqueued
\* comes from a scan count >= 1 or a frequency > 0.
C27_ParameterInvariants ==
    [][/\ (generate_cv_script \/ add_cv_to_queue)
             /\ (int(params.n_scans).raised \/ int(params.n_scans).value < 1)
          => Rejected
       /\ (generate_swv_script \/ add_swv_to_queue)
             /\ (float(params.frequency).raised \/ float(params.frequency).value.m <= 0)
          => Rejected]_vars

\* C28: the bounds of the set_range_minmax line of an SWV script generated from a form
\* whose entries are all numbers enclose the sweep: lo <= 1000*(min(begin,end) -
\* amplitude) and hi >= 1000*(max(begin,end) + amplitude), in exact arithmetic (both
\* sides multiplied by the power of ten that makes the entries integers).
C28_RangeCoversSweep ==
    [][(generate_swv_script \/ add_swv_to_queue) /\ ValidParams(params)
       => LET b == float(params.begin_potential).value
              n == float(params.end_potential).value
              a == float(params.amplitude).value
              e == LeastExponent({b, n, a, Dec(1, 0)})
              unit == 10 ^ (0 - e)
          IN  \E i \in 1..Len(current_script') :
                  /\ current_script'[i].op = "set_range_minmax da {}m {}m"
                  /\ int(current_script'[i].args[1]).value * unit
                         <= 1000 * (Least(ScaledTo(b, e), ScaledTo(n, e)) - ScaledTo(a, e))
                  /\ int(current_script'[i].args[2]).value * unit
                         >= 1000 * (Greatest(ScaledTo(b, e), ScaledTo(n, e)) + ScaledTo(a, e))]_vars

\* C30: when a thread executes measurement_queue.pop(0) (line 611), the list is not
\* empty and its head is the item this thread marked running and dispatched.
C30_RemovalMatchesDispatch ==
    [][\A w \in Workers :
          WorkerPop(w) => /\ measurement_queue # <<>>
                          /\ Head(measurement_queue) = threads[w].current]_vars

(***************************************************************************)
(* Claims about the running flag and about what Completed stands for.      *)
(***************************************************************************)
\* C31: is_running is never left True with no live thread of execute_queue_serial
\* (the state from which no thread can set it back to False, so that run_queue and
\* clear_queue are refused from then on).
C31_RunningFlag == is_running => threads # <<>>

\* C32: a thread marks a pump item completed only after one of the four capability
\* methods was called and returned, or the wait was slept.
C32_CompletedPumpItem ==
    [][\A w \in Workers :
          (/\ Dispatches(w)
           /\ StartsWithPUMP(items[threads[w].current].type)
           /\ items'[threads[w].current].status = "completed")
              => /\ threads'[w].trace.kind = "pump"
                 /\ ~threads'[w].trace.raised
                 /\ threads'[w].trace.call.method
                        \in {"extract", "dispense", "changePort", "dispenseToWaste", "sleep"}
      ]_vars

\* C33: when the measurement process has ended with an exit status for which
\* execute_queue_serial marks the item completed, its receive loop ended on a
\* completion token, not by the timeout and not by a device abort.
C33_CompletedMeasurement ==
    at = "exited" /\ StatusOfReturnCode(exit_code) = "completed"
        => loop_end = "completed"

=============================================================================
